---- MODULE Spec2Model ----
(***************************************************************************)
(* Model of src/06_spacetime_crystal.py: the seeded random graph           *)
(* construction, the SpacetimeCrystal evolver (calculate_curvature,        *)
(* evolve, measure_order) and the driver loop that ticks it.               *)
(*                                                                         *)
(* Numbers.  The program's floats are modelled as exact rationals.  With   *)
(* L the least common multiple of 1..MaxNodes, a curvature c/k (k is a     *)
(* union size, 1 <= k <= MaxNodes) is the integer c*L/k in units of 1/L,   *)
(* and a weight is an integer in units of 1/(10*L), so that                *)
(* GRAVITY_STRENGTH * kappa - DARK_ENERGY is computed without rounding.    *)
(* Probabilities and random draws are integers in units of 1/ProbOne.      *)
(***************************************************************************)
EXTENDS Integers, Sequences, FiniteSets, TLC

VARIABLES
    nodeCount,        \* n handed to create_manual_random_graph
    edgeProbability,  \* p handed to create_manual_random_graph
    outcome,          \* how the construction ended
    G,                \* sim.G: [nodes, w], w maps each edge <<u, v>>, u < v, to its weight
    pc,               \* position of the driver loop: "evolve" (line 108) or "measure" (109)
    t,                \* the driver loop's t
    broken,           \* the value of the last evolve() call
    order,            \* the value of the last measure_order() call, <<numerator, denominator>>
    G2,               \* the graph of a second, independently constructed evolver
    broken2,          \* the value of the second evolver's last evolve() call
    probe             \* the last direct scoring of a node pair, or NoProbe

vars == <<nodeCount, edgeProbability, outcome, G, pc, t, broken, order, G2, broken2, probe>>

---------------------------------------------------------------------------
\* Bounds of the model.

\* The largest node count constructed (NUM_NODES is 60 in the program).
MaxNodes == 4

\* The number of driver iterations explored (STEPS is 60 in the program).
MaxTicks == 22

\* The resolution of probabilities and random draws: 1.0 is ProbOne units.
ProbOne == 4

---------------------------------------------------------------------------
\* Program constants, in tenths.

GRAVITY_STRENGTH == 3

DARK_ENERGY == 1

CUTOFF_THRESHOLD == 5

WEIGHT_CAP == 20

INITIAL_WEIGHT == 10

---------------------------------------------------------------------------
\* Arithmetic of the fixed-point representation.

RECURSIVE Gcd(_, _)
Gcd(a, b) == IF b = 0 THEN a ELSE Gcd(b, a % b)

RECURSIVE LcmUpTo(_)
LcmUpTo(k) == IF k <= 1 THEN 1 ELSE (LcmUpTo(k - 1) * k) \div Gcd(LcmUpTo(k - 1), k)

\* One unit of curvature: curvature 1.0 is L.
L == LcmUpTo(MaxNodes)

\* A value given in tenths, as a weight.
Tenths(x) == x * L

\* The value calculate_curvature returns for "no neighbors": -1.
Sentinel == 0 - L

NoProbe == [u |-> 0 - 1, v |-> 0 - 1, w |-> 0, kappa |-> 0, new_w |-> 0]

---------------------------------------------------------------------------
\* The random source: random.seed(s) and random.random().
\* A seed stands for the stream of draws it produces; the stream is read
\* cyclically from the current position.

MaxPairs == (MaxNodes * (MaxNodes - 1)) \div 2

StreamLen == IF MaxPairs = 0 THEN 1 ELSE MaxPairs

DrawValues == {0, ProbOne \div 2}

Seeds == [1..StreamLen -> DrawValues]

Probabilities == {0 - 1, 0, 1, ProbOne, ProbOne + 1}

NodeCounts == (0 - 1)..MaxNodes

\* The generator before the program seeds it (its stream is never drawn from).
Unseeded == [stream |-> [k \in 1..StreamLen |-> 0], pos |-> 0]

\* random.seed(s), mutated: the stream is replaced but not rewound.
SeedRandomKeepPos(rng, s) == [stream |-> s, pos |-> rng.pos]

\* random.seed(s): the generator restarts the stream of s.
SeedRandom(rng, s) == [stream |-> s, pos |-> 0]

\* The k-th call of random.random() from the state rng (k = 1, 2, ...).
Random(rng, k) == rng.stream[((rng.pos + k - 1) % StreamLen) + 1]

\* The generator after k calls of random.random().
Advance(rng, k) == [rng EXCEPT !.pos = (rng.pos + k) % StreamLen]

---------------------------------------------------------------------------
\* Graph construction.

\* for j in range(i + 1, n), from j on.
RECURSIVE InnerPairs(_, _, _)
InnerPairs(i, j, n) == IF j >= n THEN <<>> ELSE <<<<i, j>>>> \o InnerPairs(i, j + 1, n)

\* for i in range(n): for j in range(i + 1, n): the pairs in the order visited.
RECURSIVE PairSeq(_, _)
PairSeq(i, n) == IF i >= n THEN <<>> ELSE InnerPairs(i, i + 1, n) \o PairSeq(i + 1, n)

\* create_manual_random_graph(n, p), followed by __init__'s weight reset:
\* the graph built and the generator it leaves behind.
CreateManualRandomGraph(n, p, rng) ==
    LET pairs == PairSeq(0, n)
        chosen == {k \in 1..Len(pairs) : Random(rng, k) < p}
        es == {pairs[k] : k \in chosen}
    IN  [G   |-> [nodes |-> 0..(n - 1), w |-> [e \in es |-> Tenths(INITIAL_WEIGHT)]],
         rng |-> Advance(rng, Len(pairs))]

---------------------------------------------------------------------------
\* Graph accessors (networkx).

Edges(g) == DOMAIN g.w

NumEdges(g) == Cardinality(Edges(g))

\* The key of the undirected edge between u and v.
EdgeKey(u, v) == IF u < v THEN <<u, v>> ELSE <<v, u>>

HasEdge(g, u, v) == EdgeKey(u, v) \in Edges(g)

\* G.neighbors(u)
Neighbors(g, u) == {v \in g.nodes : v # u /\ HasEdge(g, u, v)}

\* G.remove_edges_from(ebunch), mutated: nodes left without edges go too.
RemoveEdgesDropIsolated(g, ebunch) ==
    LET keep == Edges(g) \ {ebunch[k] : k \in 1..Len(ebunch)}
    IN  [nodes |-> {u \in g.nodes : \E e \in keep : e[1] = u \/ e[2] = u},
         w |-> [e \in keep |-> g.w[e]]]

\* G.remove_edges_from(ebunch): edges not in the graph are ignored, nodes stay.
RemoveEdgesFrom(g, ebunch) ==
    LET keep == Edges(g) \ {ebunch[k] : k \in 1..Len(ebunch)}
    IN  [nodes |-> g.nodes, w |-> [e \in keep |-> g.w[e]]]

---------------------------------------------------------------------------
\* SpacetimeCrystal.

\* calculate_curvature(u, v), mutated: each node counts among its own neighbors.
CalculateCurvatureClosed(g, u, v) ==
    LET nu == Neighbors(g, u) \cup {u}
        nv == Neighbors(g, v) \cup {v}
        common == Cardinality(nu \cap nv)
        union == Cardinality(nu \cup nv)
    IN  IF Neighbors(g, u) = {} \/ Neighbors(g, v) = {} THEN Sentinel
        ELSE IF union = 0 THEN Sentinel
        ELSE (common * L) \div union

\* calculate_curvature(u, v), mutated: the endpoints are left out of the union.
CalculateCurvatureOpen(g, u, v) ==
    LET nu == Neighbors(g, u)
        nv == Neighbors(g, v)
        common == Cardinality(nu \cap nv)
        union == Cardinality((nu \cup nv) \ {u, v})
    IN  IF nu = {} \/ nv = {} THEN Sentinel
        ELSE IF union = 0 THEN Sentinel
        ELSE (common * L) \div union

\* calculate_curvature(u, v): the Jaccard coefficient of the neighbor sets,
\* in units of 1/L, or the sentinel.
CalculateCurvature(g, u, v) ==
    LET nu == Neighbors(g, u)
        nv == Neighbors(g, v)
        common == Cardinality(nu \cap nv)
        union == Cardinality(nu \cup nv)
    IN  IF nu = {} \/ nv = {} THEN Sentinel
        ELSE IF union = 0 THEN Sentinel
        ELSE (common * L) \div union

\* delta_w = (GRAVITY_STRENGTH * kappa) - DARK_ENERGY, as a weight.
DeltaW(kappa) == GRAVITY_STRENGTH * kappa - Tenths(DARK_ENERGY)

\* The weight limit, mutated: no upper limit.
ClampNone(new_w) == new_w

\* if new_w > 2.0: new_w = 2.0
Clamp(new_w) == IF new_w > Tenths(WEIGHT_CAP) THEN Tenths(WEIGHT_CAP) ELSE new_w

\* new_w of the loop body for an edge of weight w and curvature kappa.
NewWeight(w, kappa) == Clamp(w + DeltaW(kappa))

\* if new_w < CUTOFF_THRESHOLD, mutated: an edge at the threshold breaks too.
BreaksAtThreshold(new_w) == new_w <= Tenths(CUTOFF_THRESHOLD)

\* if new_w < CUTOFF_THRESHOLD
Breaks(new_w) == new_w < Tenths(CUTOFF_THRESHOLD)

\* One pass of evolve's loop body, mutated: a broken edge is removed at once.
LoopBodyRemoveInPlace(st, e) ==
    LET w == st.G.w[e]
        kappa == CalculateCurvature(st.G, e[1], e[2])
        new_w == NewWeight(w, kappa)
        g1 == [st.G EXCEPT !.w[e] = new_w]
    IN  IF Breaks(new_w)
        THEN [G |-> RemoveEdgesFrom(g1, <<e>>),
              edges_to_remove |-> Append(st.edges_to_remove, e)]
        ELSE [G |-> g1, edges_to_remove |-> st.edges_to_remove]

\* One pass of evolve's loop body (lines 63-82) for the snapshot entry e,
\* on the loop state st = [G, edges_to_remove].
LoopBody(st, e) ==
    LET w == st.G.w[e]
        kappa == CalculateCurvature(st.G, e[1], e[2])
        new_w == NewWeight(w, kappa)
        g1 == [st.G EXCEPT !.w[e] = new_w]
    IN  [G |-> g1,
         edges_to_remove |-> IF Breaks(new_w)
                             THEN Append(st.edges_to_remove, e)
                             ELSE st.edges_to_remove]

\* for u, v, data in current_edges: from entry i on.
RECURSIVE Loop(_, _, _)
Loop(st, current_edges, i) ==
    IF i > Len(current_edges) THEN st
    ELSE Loop(LoopBody(st, current_edges[i]), current_edges, i + 1)

\* kappa = self.calculate_curvature(u, v) of each pass of the loop, from entry
\* i on: the edge scored, the graph as it is when the edge is scored, and the
\* value returned.
RECURSIVE Scores(_, _, _)
Scores(st, current_edges, i) ==
    IF i > Len(current_edges) THEN <<>>
    ELSE LET e == current_edges[i]
         IN  <<[e |-> e, g |-> st.G, kappa |-> CalculateCurvature(st.G, e[1], e[2])]>>
                 \o Scores(LoopBody(st, e), current_edges, i + 1)

\* The scores of one evolve() call on the graph g with the snapshot current_edges.
EvolveScores(g, current_edges) ==
    Scores([G |-> g, edges_to_remove |-> <<>>], current_edges, 1)

\* return len(edges_to_remove), mutated: the number of edges visited.
ReturnVisited(st, current_edges) == Len(current_edges)

\* return len(edges_to_remove)
ReturnValue(st, current_edges) == Len(st.edges_to_remove)

\* evolve() with the snapshot current_edges: the graph left and the value returned.
Evolve(g, current_edges) ==
    LET st == Loop([G |-> g, edges_to_remove |-> <<>>], current_edges, 1)
    IN  [G   |-> IF st.edges_to_remove # <<>>
                 THEN RemoveEdgesFrom(st.G, st.edges_to_remove)
                 ELSE st.G,
         ret |-> ReturnValue(st, current_edges)]

\* The order of two edge keys in the graph's iteration order.
EdgeLess(a, b) == a[1] < b[1] \/ (a[1] = b[1] /\ a[2] < b[2])

\* list(G.edges(data=True)): nodes and their neighbors were inserted in
\* ascending order, so the edges come in ascending order of (u, v).
RECURSIVE EdgeList(_)
EdgeList(es) ==
    IF es = {} THEN <<>>
    ELSE LET first == CHOOSE e \in es : \A f \in es : f = e \/ EdgeLess(e, f)
         IN  <<first>> \o EdgeList(es \ {first})

Reverse(s) == [k \in 1..Len(s) |-> s[Len(s) + 1 - k]]

Rotate(s, r) == [k \in 1..Len(s) |-> s[((k - 1 + r) % Len(s)) + 1]]

\* The visiting orders explored for a snapshot: the graph's own order, its
\* rotations and its reverse.
VisitOrders(g) ==
    LET own == EdgeList(Edges(g))
    IN  IF own = <<>> THEN {own}
        ELSE {Rotate(own, r) : r \in 0..(Len(own) - 1)} \cup {Reverse(own)}

\* Number of edges among the neighbors of u.
Triangles(g, u) ==
    LET nb == Neighbors(g, u)
    IN  Cardinality({e \in Edges(g) : e[1] \in nb /\ e[2] \in nb})

\* A common denominator of the local clustering coefficients.
ClusterDen == L * L

\* nx.clustering of one node, mutated: a node of degree below 2 counts as 1.
ClusteringLowDegreeOne(g, u) ==
    LET d == Cardinality(Neighbors(g, u))
    IN  IF d < 2 THEN ClusterDen
        ELSE (Triangles(g, u) * 2 * ClusterDen) \div (d * (d - 1))

\* nx.clustering of one node: 2T / (d (d - 1)), 0 for degree below 2;
\* in units of 1/ClusterDen.
Clustering(g, u) ==
    LET d == Cardinality(Neighbors(g, u))
    IN  IF d < 2 THEN 0
        ELSE (Triangles(g, u) * 2 * ClusterDen) \div (d * (d - 1))

RECURSIVE SumOver(_, _)
SumOver(g, S) ==
    IF S = {} THEN 0
    ELSE LET u == CHOOSE x \in S : TRUE
         IN  Clustering(g, u) + SumOver(g, S \ {u})

\* measure_order(): the average clustering as <<numerator, denominator>>.
MeasureOrder(g) ==
    IF Cardinality(g.nodes) = 0 THEN <<0, 1>>
    ELSE <<SumOver(g, g.nodes), Cardinality(g.nodes) * ClusterDen>>

---------------------------------------------------------------------------
\* The program: seeding and construction (lines 23-24, 95), then the driver
\* loop (lines 107-113).  The second evolver is constructed the same way,
\* after the generator has been seeded again with the same seed.

Init ==
    \E n \in NodeCounts, p \in Probabilities, seed \in Seeds :
        LET rng0  == SeedRandom(Unseeded, seed)
            first == CreateManualRandomGraph(n, p, rng0)
            rng1  == SeedRandom(first.rng, seed)
            again == CreateManualRandomGraph(n, p, rng1)
        IN  /\ nodeCount = n
            /\ edgeProbability = p
            /\ outcome = "built"
            /\ G = first.G
            /\ G2 = again.G
            /\ pc = "evolve"
            /\ t = 0
            /\ broken = 0
            /\ broken2 = 0
            /\ order = MeasureOrder(first.G)
            /\ probe = NoProbe

\* broken = sim.evolve()
EvolveStep ==
    /\ pc = "evolve"
    /\ t < MaxTicks
    /\ \E current_edges \in VisitOrders(G) :
          LET r == Evolve(G, current_edges)
          IN  /\ G' = r.G
              /\ broken' = r.ret
    /\ pc' = "measure"
    /\ UNCHANGED <<nodeCount, edgeProbability, outcome, t, order, G2, broken2, probe>>

\* order = sim.measure_order(), and the end of the iteration
MeasureStep ==
    /\ pc = "measure"
    /\ order' = MeasureOrder(G)
    /\ pc' = "evolve"
    /\ t' = t + 1
    /\ UNCHANGED <<nodeCount, edgeProbability, outcome, G, broken, G2, broken2, probe>>

Next == EvolveStep \/ MeasureStep

Spec == Init /\ [][Next]_vars

---------------------------------------------------------------------------
\* Two evolvers ticked side by side: the first visits its snapshot in the
\* graph's own order, the second in any of the orders explored.

TwinTick ==
    /\ pc = "evolve"
    /\ t < MaxTicks
    /\ \E current_edges2 \in VisitOrders(G2) :
          LET r  == Evolve(G, EdgeList(Edges(G)))
              r2 == Evolve(G2, current_edges2)
          IN  /\ G' = r.G
              /\ broken' = r.ret
              /\ G2' = r2.G
              /\ broken2' = r2.ret
    /\ t' = t + 1
    /\ UNCHANGED <<nodeCount, edgeProbability, outcome, pc, order, probe>>

TwinNext == TwinTick

TwinSpec == Init /\ [][TwinNext]_vars

---------------------------------------------------------------------------
\* The scoring of evolve's loop body (lines 64-75) applied to any pair of
\* distinct nodes: calculate_curvature is defined for every pair, and the
\* update formula for every value it returns.

ScorePair ==
    /\ pc = "evolve"
    /\ \E u \in G.nodes, v \in G.nodes :
          /\ u < v
          /\ LET w == IF HasEdge(G, u, v) THEN G.w[EdgeKey(u, v)] ELSE Tenths(INITIAL_WEIGHT)
                 kappa == CalculateCurvature(G, u, v)
             IN  probe' = [u |-> u, v |-> v, w |-> w, kappa |-> kappa,
                           new_w |-> NewWeight(w, kappa)]
    /\ UNCHANGED <<nodeCount, edgeProbability, outcome, G, pc, t, broken, order, G2, broken2>>

ScoreNext == ScorePair

ScoreSpec == Init /\ [][ScoreNext]_vars

---------------------------------------------------------------------------
\* The statements checked.  They are written from the update rule as the
\* specification states it, on the graph as it was before the tick.

\* A step that is one evolve() call of the driver.
EvolveTick == pc = "evolve" /\ pc' = "measure"

\* A step that is one measure_order() call of the driver.
MeasureTick == pc = "measure" /\ pc' = "evolve"

\* |N(u) \cap N(v)| and |N(u) \cup N(v)| for the edge e = <<u, v>> of g.
CommonSize(g, e) == Cardinality(Neighbors(g, e[1]) \cap Neighbors(g, e[2]))

UnionSize(g, e) == Cardinality(Neighbors(g, e[1]) \cup Neighbors(g, e[2]))

\* delta = gravityStrength * J - darkEnergy with J = common / union, as a weight.
StatedDelta(g, e) ==
    ((GRAVITY_STRENGTH * CommonSize(g, e) - DARK_ENERGY * UnionSize(g, e)) * L)
        \div UnionSize(g, e)

\* min(w + delta, weightCap)
StatedWeight(g, e) ==
    LET x == g.w[e] + StatedDelta(g, e)
    IN  IF x < Tenths(WEIGHT_CAP) THEN x ELSE Tenths(WEIGHT_CAP)

\* C1: in the initial graph and after any number of evolve() ticks, every
\* edge present in the graph has weight <= weightCap (2.0).
WeightCapInvariant == \A e \in Edges(G) : G.w[e] <= Tenths(WEIGHT_CAP)

\* An evolve() call has just returned, late enough for a weight that grew
\* from 1.0 to have been cut back to the cap, and an edge sits at the cap.
WeightCapWitness ==
    /\ pc = "measure"
    /\ t >= 20
    /\ \E e \in Edges(G) : G.w[e] = Tenths(WEIGHT_CAP)

\* C2: after an evolve() tick no edge present has weight < cutoffThreshold
\* (0.5): every edge whose updated weight fell below the threshold is gone
\* when evolve() returns, and an edge whose updated weight equals the
\* threshold survives with that weight.
RemovalThreshold ==
    [][EvolveTick =>
          /\ \A e \in Edges(G') : G'.w[e] >= Tenths(CUTOFF_THRESHOLD)
          /\ \A e \in Edges(G) :
                /\ StatedWeight(G, e) < Tenths(CUTOFF_THRESHOLD) => e \notin Edges(G')
                /\ StatedWeight(G, e) = Tenths(CUTOFF_THRESHOLD) =>
                      (e \in Edges(G') /\ G'.w[e] = Tenths(CUTOFF_THRESHOLD))]_vars

\* An evolve() call has just returned and an edge whose updated weight is
\* exactly the threshold is still in the graph.
RemovalThresholdWitness ==
    /\ pc = "measure"
    /\ t >= 4
    /\ \E e \in Edges(G) : G.w[e] = Tenths(CUTOFF_THRESHOLD)

\* C3: once the edge count is 0 it stays 0, every evolve() call returns 0
\* and every measure_order() call yields 0.
QuiescenceAbsorbing ==
    [][NumEdges(G) = 0 =>
          /\ NumEdges(G') = 0
          /\ EvolveTick => broken' = 0
          /\ MeasureTick => order'[1] = 0]_vars

\* A graph of MaxNodes nodes without edges on which evolve() and
\* measure_order() have been called again and again.
QuiescenceWitness ==
    /\ nodeCount = MaxNodes
    /\ NumEdges(G) = 0
    /\ t >= 7
    /\ pc = "evolve"
    /\ broken = 0
    /\ order[1] = 0

\* The reference tick: all curvatures on the pre-tick graph, then all
\* weights, then the removal of the marked edges.
ReferenceTick(g) ==
    LET updated == [e \in Edges(g) |-> StatedWeight(g, e)]
        marked == {e \in Edges(g) : updated[e] < Tenths(CUTOFF_THRESHOLD)}
    IN  [nodes |-> g.nodes, w |-> [e \in Edges(g) \ marked |-> updated[e]]]

\* C4: whatever the order in which the snapshot is visited, evolve() leaves
\* the graph the reference tick (compute on the pre-tick graph, commit, then
\* remove) leaves.
OrderingContract == [][EvolveTick => G' = ReferenceTick(G)]_vars

\* An evolve() call has just removed some edges and kept others.
OrderingWitness ==
    /\ pc = "measure"
    /\ broken > 0
    /\ NumEdges(G) > 0
    /\ \E e \in Edges(G) : G.w[e] # Tenths(INITIAL_WEIGHT)

\* The scenario of the specification: the path 0 - 1 - 2 - 3, all weights 1.0.
PathEdges == {<<0, 1>>, <<1, 2>>, <<2, 3>>}

PathScenario(g) ==
    /\ g.nodes = 0..3
    /\ Edges(g) = PathEdges
    /\ \A e \in PathEdges : g.w[e] = Tenths(INITIAL_WEIGHT)

\* C5: one tick gives every edge of pre-tick weight w the weight
\* min(w + gravityStrength * J - darkEnergy, weightCap), with no lower clamp,
\* and keeps it iff that weight is >= cutoffThreshold; on the path scenario
\* all three edges survive with weight 0.9 and evolve() returns 0.
PerEdgeUpdate ==
    [][EvolveTick =>
          /\ \A e \in Edges(G) :
                /\ e \in Edges(G') <=> StatedWeight(G, e) >= Tenths(CUTOFF_THRESHOLD)
                /\ e \in Edges(G') => G'.w[e] = StatedWeight(G, e)
                /\ StatedWeight(G, e) = G.w[e] + StatedDelta(G, e)
                      \/ StatedWeight(G, e) = Tenths(WEIGHT_CAP)
          /\ PathScenario(G) =>
                /\ Edges(G') = PathEdges
                /\ \A e \in PathEdges : G'.w[e] = Tenths(9)
                /\ broken' = 0]_vars

\* The path scenario one tick later.
PerEdgeUpdateWitness ==
    /\ pc = "measure"
    /\ t = 0
    /\ broken = 0
    /\ G.nodes = 0..3
    /\ Edges(G) = PathEdges
    /\ \A e \in PathEdges : G.w[e] = Tenths(9)

\* C6: the node set is the one created at construction, whatever evolve()
\* has removed.
NodeSetUntouched == G.nodes = 0..(nodeCount - 1)

\* An evolve() call has just removed the last edges of a graph of MaxNodes
\* nodes.
NodeSetWitness ==
    /\ nodeCount = MaxNodes
    /\ pc = "measure"
    /\ broken > 0
    /\ NumEdges(G) = 0

\* C7: evolve() returns the number of edges it removed: the edge count
\* before minus the edge count after, and the number of edges whose updated
\* weight is below cutoffThreshold.
ReturnCount ==
    [][EvolveTick =>
          /\ broken' = NumEdges(G) - NumEdges(G')
          /\ broken' = Cardinality({e \in Edges(G) :
                                       StatedWeight(G, e) < Tenths(CUTOFF_THRESHOLD)})]_vars

\* An evolve() call has just removed several edges and kept others.
ReturnCountWitness ==
    /\ pc = "measure"
    /\ broken >= 2
    /\ NumEdges(G) >= 1

InvalidConfigRejected ==
    (nodeCount <= 0 \/ edgeProbability < 0 \/ edgeProbability > ProbOne)
        => outcome = "InvalidConfiguration"

\* C10: two constructions from the same (nodeCount, edgeProbability, seed)
\* give the same edges, every created edge with weight 1.0, and two evolvers
\* started from them hold the same edges and weights and have returned the
\* same value after every tick.
Determinism ==
    /\ G = G2
    /\ broken = broken2
    /\ t = 0 => \A e \in Edges(G) : G.w[e] = Tenths(INITIAL_WEIGHT)

\* Both evolvers have ticked past removals and still hold edges.
DeterminismWitness ==
    /\ t >= 7
    /\ NumEdges(G) > 0
    /\ NumEdges(G) < MaxPairs
    /\ \E e \in Edges(G) : G.w[e] # Tenths(INITIAL_WEIGHT)
    /\ G = G2

\* C11: inside evolve() the sentinel never arises: when an edge <<u, v>> is
\* scored each endpoint has the other as a neighbor, u and v are in the union
\* (of size k) and not in the intersection, and the curvature J returned
\* satisfies 0 <= J <= (k - 2) / k < 1.
SentinelUnreachable ==
    pc = "evolve" =>
        \A current_edges \in VisitOrders(G) :
            LET scores == EvolveScores(G, current_edges)
            IN  \A i \in 1..Len(scores) :
                    LET s == scores[i]
                        u == s.e[1]
                        v == s.e[2]
                        k == UnionSize(s.g, s.e)
                    IN  /\ v \in Neighbors(s.g, u)
                        /\ u \in Neighbors(s.g, v)
                        /\ {u, v} \subseteq Neighbors(s.g, u) \cup Neighbors(s.g, v)
                        /\ {u, v} \cap (Neighbors(s.g, u) \cap Neighbors(s.g, v)) = {}
                        /\ s.kappa # Sentinel
                        /\ s.kappa >= 0
                        /\ s.kappa * k <= (k - 2) * L
                        /\ s.kappa < L

\* evolve() is about to score, not for the first time, an edge whose
\* endpoints share every other node of the union: J = (k - 2) / k > 0.
SentinelUnreachableWitness ==
    /\ pc = "evolve"
    /\ t >= 1
    /\ t < MaxTicks
    /\ \E e \in Edges(G) :
          /\ CommonSize(G, e) > 0
          /\ CommonSize(G, e) = UnionSize(G, e) - 2
          /\ CalculateCurvature(G, e[1], e[2]) * UnionSize(G, e) = CommonSize(G, e) * L

\* No two adjacent nodes of g share a neighbor.
TriangleFree(g) == \A e \in Edges(g) : CommonSize(g, e) = 0

\* The number of evolve() calls that have returned.
TicksDone == IF pc = "measure" THEN t + 1 ELSE t

\* C12: a graph in which no two adjacent nodes share a neighbor keeps all its
\* edges for five ticks, each edge scored with curvature 0 and each weight
\* dropping by darkEnergy per tick from 1.0, with evolve() returning 0; the
\* sixth tick removes all the edges together, and from then on the graph has
\* no edges and evolve() returns 0.  (No edge is removed before the sixth
\* tick, so a graph without triangles on one of the first ticks started so.)
TriangleFreeDieOut ==
    [][/\ (TriangleFree(G) /\ TicksDone <= 5) =>
              \A e \in Edges(G) :
                  G.w[e] = Tenths(INITIAL_WEIGHT - DARK_ENERGY * TicksDone)
       /\ (EvolveTick /\ TriangleFree(G) /\ t <= 5) =>
              \A current_edges \in VisitOrders(G) :
                  LET scores == EvolveScores(G, current_edges)
                  IN  \A i \in 1..Len(scores) : scores[i].kappa = 0
       /\ (EvolveTick /\ TriangleFree(G) /\ t <= 4) =>
              /\ broken' = 0
              /\ Edges(G') = Edges(G)
              /\ TriangleFree(G')
       /\ (EvolveTick /\ TriangleFree(G) /\ t = 5) =>
              /\ NumEdges(G') = 0
              /\ broken' = NumEdges(G)
       /\ NumEdges(G) = 0 =>
              /\ NumEdges(G') = 0
              /\ EvolveTick => broken' = 0]_vars

\* The sixth evolve() call has just removed, together, all the edges of a
\* graph of MaxNodes nodes: edges that lost 0.1 on every tick.
TriangleFreeWitness ==
    /\ nodeCount = MaxNodes
    /\ pc = "measure"
    /\ t = 5
    /\ broken >= 2
    /\ NumEdges(G) = 0

====
